---- MODULE Spec2Model ----
\* Solo8VanillaEnv (gym_solo/envs/solo8v2vanilla.py): the episode controller
\* around a pybullet session.  Every statement of __init__, step, reset,
\* _load_robot and _close that talks to the physics client or to a factory is
\* one step of the model, in source order; `pc` is the position in the running
\* call.  The physics client is modelled by the contract of the pybullet
\* binding the code calls; the observation / reward / termination factories
\* (gym_solo.core, not part of this file) by the contract the controller
\* relies on.
EXTENDS Integers, Sequences, FiniteSets

\* ---------------------------------------------------------------- bounds
MaxJoints == 2          \* joint counts a robot asset may report: 1..MaxJoints
MaxBodyId == 2          \* body unique ids the session hands out: 0..MaxBodyId
PoseMod   == 7          \* size of the abstract space of robot poses

\* ------------------------------------------------------- program constants
SettleSteps == 1000     \* reset: for i in range(1000)

JointCounts == 1..MaxJoints
BodyIds     == 0..MaxBodyId
NoBody      == MaxBodyId + 1      \* attribute not assigned yet
Torques     == {-1, 1}            \* torque values an agent may command
ActionLens  == 0..(MaxJoints + 1)
Actions     == UNION {[1..n -> Torques] : n \in ActionLens}

RECURSIVE Sum(_)
Sum(s) == IF s = <<>> THEN 0 ELSE Head(s) + Sum(Tail(s))

Zeros(n) == [k \in 1..n |-> 0]    \* np.zeros(n)
Arange(n) == 0..(n - 1)           \* np.arange(n), as the set of indices

\* ------------------------------------------------------ the physics client
\* A body of the session: what loadURDF created and what the later calls on
\* it changed.
\*   joints  number of joints the asset has (getNumJoints)
\*   velCtl  joints put under VELOCITY_CONTROL with zero force
\*   dyn     joints whose dynamics were overridden by changeDynamics
\*   tau     torques commanded for the next simulation step
\*   torqued a TORQUE_CONTROL command was accepted for this body
\*   pose    abstract physical state of the body
NewBody(kind, jc) ==
  [kind |-> kind, joints |-> jc, velCtl |-> {}, dyn |-> {},
   tau |-> Zeros(jc), torqued |-> FALSE, pose |-> 0]

FreeIds(bodies) == BodyIds \ DOMAIN bodies

\* loadURDF: the body joins the session under an id not in use.
AddBody(bodies, id, body) ==
  [b \in DOMAIN bodies \cup {id} |-> IF b = id THEN body ELSE bodies[b]]

\* removeBody: the body leaves the session; an unknown id removes nothing.
DropBody(bodies, id) == [b \in DOMAIN bodies \ {id} |-> bodies[b]]

\* getNumJoints: 0 for an id the session does not know.
NumJoints(bodies, id) == IF id \in DOMAIN bodies THEN bodies[id].joints ELSE 0

\* setJointMotorControlArray(body, arange(n), mode, forces=.., gains..): the
\* binding's answer before it sends anything: "ok", or the error it raises.
MotorArrayCheck(conn, bodies, body, n, forces, gains) ==
  IF ~conn THEN "not_connected"
  ELSE IF n = 0 THEN "ok"
  ELSE IF n > NumJoints(bodies, body) THEN "joint_index"
  ELSE IF Len(forces) # n THEN "forces_len"
  ELSE IF Len(gains) # n THEN "gains_len"
  ELSE "ok"

\* An accepted VELOCITY_CONTROL command with zero forces on joints 0..n-1.
VelocityControl(bodies, body, n) ==
  IF n = 0 THEN bodies
  ELSE [bodies EXCEPT ![body].velCtl = @ \cup Arange(n)]

\* An accepted TORQUE_CONTROL command on joints 0..n-1.
TorqueControl(bodies, body, n, forces) ==
  IF n = 0 THEN bodies
  ELSE [bodies EXCEPT ![body].tau = [k \in 1..Len(@) |->
                                       IF k <= n THEN forces[k] ELSE @[k]],
                      ![body].torqued = TRUE]

\* changeDynamics(body, joint, damping.., restitution, friction).
ChangeDynamics(bodies, body, joint) ==
  [bodies EXCEPT ![body].dyn = @ \cup {joint}]

\* The deterministic physics of one tick for one body: the pose moves under
\* gravity and the commanded torques; the commanded torques are consumed.
Dynamics(pose, tau) == (pose + 1 + Sum(tau)) % PoseMod

Advance(bodies) ==
  [b \in DOMAIN bodies |->
     IF bodies[b].kind = "robot"
     THEN [bodies[b] EXCEPT !.pose = Dynamics(@, bodies[b].tau),
                            !.tau = Zeros(bodies[b].joints)]
     ELSE bodies[b]]

Robots(bodies) == {b \in DOMAIN bodies : bodies[b].kind = "robot"}
Planes(bodies) == {b \in DOMAIN bodies : bodies[b].kind = "plane"}

\* ------------------------------------------------------------ the factories
\* ObservationFactory.get_obs(): a vector of the declared shape derived from
\* the physics state, and one label per element.
ObsShape == 2
GetObs(bodies) ==
  LET rs == Robots(bodies)
      r  == IF rs = {} THEN NoBody ELSE CHOOSE b \in rs : TRUE
  IN  IF rs = {} THEN <<0, 0>> ELSE <<bodies[r].pose, bodies[r].joints>>
ObsLabels == <<"pose", "joints">>

\* RewardFactory.get_reward(): a scalar of the physics state.
GetReward(bodies) == GetObs(bodies)[1]

\* TerminationFactory.is_terminated(): a boolean of the physics state.
IsTerminated(bodies) == GetObs(bodies)[1] = 0

\* ------------------------------------------------------------------ state
VARIABLES
  connected,     \* self.client is connected to a physics session
  bodies,        \* the session's bodies: id -> body
  plane,         \* self.plane
  robot,         \* self.robot
  action_space,  \* self.action_space.shape[0]
  zero_gains,    \* len(self._zero_gains)
  op,            \* the public call that is running or ran last
  pc,            \* position in the running call; "idle" between calls
  action,        \* step: the action argument
  init_call,     \* reset: the init_call argument
  robot_id,      \* _load_robot: local robot_id
  joint_cnt,     \* _load_robot: local joint_cnt
  joint,         \* _load_robot: loop variable of the changeDynamics loop
  i,             \* reset: loop variable of the settle loop
  obs_values,    \* step: local obs_values
  reward,        \* step: local reward
  done,          \* step: local done
  result,        \* what the last finished step / reset / _close gave its caller
  cnt,           \* client calls accepted during the running call, by kind
  calls2,        \* the last two client calls accepted during the running call
  reads,         \* factory queries of the running call, in order
  resetObs,      \* what the last two reset(init_call=False) returns gave, the
                 \* older one kept only until the next call starts
  closed         \* _close has been called

env    == <<plane, robot, action_space, zero_gains>>
locals == <<action, init_call, robot_id, joint_cnt, joint, i,
            obs_values, reward, done>>
ghost  == <<cnt, calls2, reads>>
vars   == <<connected, bodies, env, op, pc, locals, result, ghost,
            resetObs, closed>>

NoCall   == [op |-> "none", body |-> NoBody, zero |-> FALSE]
NoCnt    == [remove |-> 0, load |-> 0, torque |-> 0, adv |-> 0]
NoResult == [op |-> "none", kind |-> "none", err |-> "", init |-> FALSE,
             value |-> <<>>, labels |-> <<>>, pair |-> FALSE,
             reward |-> 0, done |-> FALSE]
NoReset  == [asset |-> 0, value |-> <<>>]

\* The client accepted a call: it is the latest of the running call.
Logged(c) == calls2' = <<calls2[2], c>>

\* A public call starts on the constructed environment with its arguments:
\* a new frame (no local holds a value yet), no result yet, and the per-call
\* records are cleared.
Enter(o, a, ic) ==
  /\ op' = o
  /\ action' = a
  /\ init_call' = ic
  /\ robot_id' = NoBody
  /\ joint_cnt' = 0
  /\ joint' = 0
  /\ i' = 0
  /\ obs_values' = <<>>
  /\ reward' = 0
  /\ done' = FALSE
  /\ result' = NoResult
  /\ cnt' = NoCnt
  /\ calls2' = <<NoCall, NoCall>>
  /\ reads' = <<>>
  /\ resetObs' = <<NoReset, resetObs[2]>>

\* An exception leaves the running call: nothing after the raising statement
\* runs.  Raised inside __init__, no environment object comes to exist.
Raise(e) ==
  /\ pc' = IF op = "construct" THEN "failed" ELSE "idle"
  /\ result' = [NoResult EXCEPT !.op = op, !.kind = "raise", !.err = e,
                                !.init = init_call]

Init ==
  /\ connected = FALSE
  /\ bodies = <<>>
  /\ plane = NoBody
  /\ robot = NoBody
  /\ action_space = 0
  /\ zero_gains = 0
  /\ op = "construct"
  /\ pc = "ctor_connect"
  /\ action = <<>>
  /\ init_call = FALSE
  /\ robot_id = NoBody
  /\ joint_cnt = 0
  /\ joint = 0
  /\ i = 0
  /\ obs_values = <<>>
  /\ reward = 0
  /\ done = FALSE
  /\ result = NoResult
  /\ cnt = NoCnt
  /\ calls2 = <<NoCall, NoCall>>
  /\ reads = <<>>
  /\ resetObs = <<NoReset, NoReset>>
  /\ closed = FALSE

\* --------------------------------------------------------------- __init__
\* bc.BulletClient(...), setAdditionalSearchPath, setGravity,
\* setPhysicsEngineParameter: the session exists, or the engine cannot start.
CtorConnect ==
  /\ pc = "ctor_connect"
  /\ \E ok \in BOOLEAN :
       IF ok
       THEN /\ connected' = TRUE
            /\ pc' = "ctor_plane"
            /\ UNCHANGED result
       ELSE /\ Raise("connect")
            /\ UNCHANGED connected
  /\ UNCHANGED <<bodies, env, op, locals, ghost, resetObs, closed>>

\* self.plane = self.client.loadURDF('plane.urdf')
CtorPlane ==
  /\ pc = "ctor_plane"
  /\ \/ \E id \in FreeIds(bodies) :
          /\ bodies' = AddBody(bodies, id, NewBody("plane", 0))
          /\ plane' = id
          /\ pc' = "load_urdf"
          /\ Logged([op |-> "load", body |-> id, zero |-> FALSE])
          /\ UNCHANGED result
     \/ /\ Raise("load")
        /\ UNCHANGED <<bodies, plane, calls2>>
  /\ UNCHANGED <<connected, robot, action_space, zero_gains, op, locals,
                 cnt, reads, resetObs, closed>>

\* self.robot, joint_cnt = self._load_robot(); the factories are built;
\* self._zero_gains = np.zeros(joint_cnt); self.action_space = Box(shape=
\* (joint_cnt,)); then self.reset(init_call=True) is entered.
CtorSpaces ==
  /\ pc = "load_return"
  /\ op = "construct" /\ ~init_call      \* the loader was called by line 47
  /\ robot' = robot_id
  /\ zero_gains' = joint_cnt
  /\ action_space' = joint_cnt
  /\ init_call' = TRUE
  /\ pc' = "reset_remove"
  /\ cnt' = NoCnt
  /\ calls2' = <<NoCall, NoCall>>
  /\ UNCHANGED <<connected, bodies, plane, op, action, robot_id, joint_cnt,
                 joint, i, obs_values, reward, done, result, reads,
                 resetObs, closed>>

\* ------------------------------------------------------------ _load_robot
\* robot_id = self.client.loadURDF(self._config.urdf, start pose, ...): the
\* asset on disk decides the joint count; a missing or malformed asset, or a
\* closed session, raises.
LoadURDF ==
  /\ pc = "load_urdf"
  /\ \/ /\ connected
        /\ \E id \in FreeIds(bodies), jc \in JointCounts :
             /\ bodies' = AddBody(bodies, id, NewBody("robot", jc))
             /\ robot_id' = id
        /\ pc' = "load_numjoints"
        /\ Logged([op |-> "load", body |-> robot_id', zero |-> FALSE])
        /\ cnt' = [cnt EXCEPT !.load = @ + 1]
        /\ UNCHANGED result
     \/ /\ Raise(IF connected THEN "load" ELSE "not_connected")
        /\ UNCHANGED <<bodies, robot_id, calls2, cnt>>
  /\ UNCHANGED <<connected, env, op, action, init_call, joint_cnt, joint, i,
                 obs_values, reward, done, reads, resetObs, closed>>

\* joint_cnt = self.client.getNumJoints(robot_id)
LoadNumJoints ==
  /\ pc = "load_numjoints"
  /\ joint_cnt' = NumJoints(bodies, robot_id)
  /\ pc' = "load_velctl"
  /\ UNCHANGED <<connected, bodies, env, op, action, init_call, robot_id,
                 joint, i, obs_values, reward, done, result, ghost,
                 resetObs, closed>>

\* self.client.setJointMotorControlArray(robot_id, np.arange(joint_cnt),
\*   p.VELOCITY_CONTROL, forces=np.zeros(joint_cnt))
LoadVelocityControl ==
  /\ pc = "load_velctl"
  /\ LET e == MotorArrayCheck(connected, bodies, robot_id, joint_cnt,
                              Zeros(joint_cnt), Zeros(joint_cnt))
     IN  IF e = "ok"
         THEN /\ bodies' = VelocityControl(bodies, robot_id, joint_cnt)
              /\ joint' = 0
              /\ pc' = "load_dyn"
              /\ Logged([op |-> "velocity", body |-> robot_id, zero |-> TRUE])
              /\ UNCHANGED result
         ELSE /\ Raise(e)
              /\ UNCHANGED <<bodies, joint, calls2>>
  /\ UNCHANGED <<connected, env, op, action, init_call, robot_id, joint_cnt,
                 i, obs_values, reward, done, cnt, reads, resetObs, closed>>

\* A loader whose dynamics loop stops one joint early.
DynamicsJointsShort(n) == Arange(n - 1)

\* range(joint_cnt): the joints the dynamics loop visits.
DynamicsJoints(n) == Arange(n)

\* for joint in range(joint_cnt): self.client.changeDynamics(robot_id, joint,
\*   linearDamping=.., angularDamping=.., restitution=.., lateralFriction=..)
\* and, the range exhausted, return robot_id, joint_cnt
LoadDynamics ==
  /\ pc = "load_dyn"
  /\ IF joint \in DynamicsJoints(joint_cnt)
     THEN /\ bodies' = ChangeDynamics(bodies, robot_id, joint)
          /\ joint' = joint + 1
          /\ Logged([op |-> "dyn", body |-> robot_id, zero |-> FALSE])
          /\ UNCHANGED pc
     ELSE /\ pc' = "load_return"
          /\ UNCHANGED <<bodies, joint, calls2>>
  /\ UNCHANGED <<connected, env, op, action, init_call, robot_id, joint_cnt,
                 i, obs_values, reward, done, result, cnt, reads, resetObs,
                 closed>>

\* ------------------------------------------------------------------- step
\* The agent calls step(action) on the constructed environment.
Step ==
  /\ pc = "idle"
  /\ \E a \in Actions : Enter("step", a, FALSE)
  /\ pc' = "step_cmd"
  /\ UNCHANGED <<connected, bodies, env, closed>>

\* A step that fits the action to the action space: cut when too long,
\* padded with zero torque when too short.
StepForcesFitted(a) ==
  [k \in 1..action_space |-> IF k <= Len(a) THEN a[k] ELSE 0]

\* The forces argument step hands to the client: the action as given.
StepForces(a) == a

\* self.client.setJointMotorControlArray(self.robot,
\*   np.arange(self.action_space.shape[0]), p.TORQUE_CONTROL, forces=action,
\*   positionGains=self._zero_gains, velocityGains=self._zero_gains)
StepCmd ==
  /\ pc = "step_cmd"
  /\ LET f == StepForces(action)
         e == MotorArrayCheck(connected, bodies, robot, action_space, f,
                              Zeros(zero_gains))
     IN  IF e = "ok"
         THEN /\ bodies' = TorqueControl(bodies, robot, action_space, f)
              /\ cnt' = [cnt EXCEPT !.torque = @ + 1]
              /\ Logged([op |-> "torque", body |-> robot,
                         zero |-> (f = Zeros(Len(f)))])
              /\ pc' = "step_adv"
              /\ UNCHANGED result
         ELSE /\ Raise(e)
              /\ UNCHANGED <<bodies, cnt, calls2>>
  /\ UNCHANGED <<connected, env, op, locals, reads, resetObs, closed>>

\* A step that forgets to advance the simulation.
StepAdvanceSkipped ==
  /\ pc = "step_adv"
  /\ pc' = "step_obs"
  /\ UNCHANGED <<connected, bodies, env, op, locals, result, ghost, resetObs,
                 closed>>

\* self.client.stepSimulation()  (and the realtime sleep, which changes
\* no state)
StepAdvance ==
  /\ pc = "step_adv"
  /\ IF connected
     THEN /\ bodies' = Advance(bodies)
          /\ cnt' = [cnt EXCEPT !.adv = @ + 1]
          /\ Logged([op |-> "advance", body |-> NoBody, zero |-> FALSE])
          /\ pc' = "step_obs"
          /\ UNCHANGED result
     ELSE /\ Raise("not_connected")
          /\ UNCHANGED <<bodies, cnt, calls2>>
  /\ UNCHANGED <<connected, env, op, locals, reads, resetObs, closed>>

\* A factory query: which factory, after how many advances of this call, and
\* the physics state it saw.
Read(f) == [f |-> f, adv |-> cnt.adv, saw |-> GetObs(bodies)]

\* obs_values, obs_labels = self.obs_factory.get_obs()
StepObs ==
  /\ pc = "step_obs"
  /\ obs_values' = GetObs(bodies)
  /\ reads' = Append(reads, Read("obs"))
  /\ pc' = "step_reward"
  /\ UNCHANGED <<connected, bodies, env, op, action, init_call, robot_id,
                 joint_cnt, joint, i, reward, done, result, cnt, calls2,
                 resetObs, closed>>

\* reward = self.reward_factory.get_reward()
StepReward ==
  /\ pc = "step_reward"
  /\ reward' = GetReward(bodies)
  /\ reads' = Append(reads, Read("reward"))
  /\ pc' = "step_done"
  /\ UNCHANGED <<connected, bodies, env, op, action, init_call, robot_id,
                 joint_cnt, joint, i, obs_values, done, result, cnt, calls2,
                 resetObs, closed>>

\* done = self.termination_factory.is_terminated()
\* return obs_values, reward, done, {'labels': obs_labels}
StepDone ==
  /\ pc = "step_done"
  /\ done' = IsTerminated(bodies)
  /\ reads' = Append(reads, Read("done"))
  /\ result' = [NoResult EXCEPT !.op = "step", !.kind = "return",
                                !.value = obs_values, !.labels = ObsLabels,
                                !.reward = reward, !.done = done']
  /\ pc' = "idle"
  /\ UNCHANGED <<connected, bodies, env, op, action, init_call, robot_id,
                 joint_cnt, joint, i, obs_values, reward, cnt, calls2,
                 resetObs, closed>>

\* ------------------------------------------------------------------ reset
\* The agent calls reset(init_call) on the constructed environment.
Reset ==
  /\ pc = "idle"
  /\ \E ic \in BOOLEAN : Enter("reset", <<>>, ic)
  /\ pc' = "reset_remove"
  /\ UNCHANGED <<connected, bodies, env, closed>>

\* A reset that keeps the robot it has and only runs the settle loop.
ResetRemoveKeepsRobot ==
  /\ pc = "reset_remove"
  /\ pc' = "settle_cmd"
  /\ UNCHANGED <<connected, bodies, env, op, locals, result, ghost, resetObs,
                 closed>>

\* self.client.removeBody(self.robot)
ResetRemove ==
  /\ pc = "reset_remove"
  /\ IF connected
     THEN /\ bodies' = DropBody(bodies, robot)
          /\ cnt' = [cnt EXCEPT !.remove = @ + 1]
          /\ Logged([op |-> "remove", body |-> robot, zero |-> FALSE])
          /\ pc' = "load_urdf"
          /\ UNCHANGED result
     ELSE /\ Raise("not_connected")
          /\ UNCHANGED <<bodies, cnt, calls2>>
  /\ UNCHANGED <<connected, env, op, locals, reads, resetObs, closed>>

\* self.robot, _ = self._load_robot(): the handle is replaced, the joint
\* count the loader returns is dropped; the settle loop starts.
ResetAssign ==
  /\ pc = "load_return"
  /\ op = "reset" \/ init_call           \* the loader was called by line 98
  /\ robot' = robot_id
  /\ i' = 0
  /\ pc' = "settle_cmd"
  /\ UNCHANGED <<connected, bodies, plane, action_space, zero_gains, op,
                 action, init_call, robot_id, joint_cnt, joint, obs_values,
                 reward, done, result, ghost, resetObs, closed>>

\* A settle loop that runs once more than range(1000).
SettleMoreOffByOne(k) == k <= SettleSteps

\* for i in range(1000): the loop has another iteration at i = k.
SettleMore(k) == k < SettleSteps

\* for i in range(1000): self.client.setJointMotorControlArray(self.robot,
\*   np.arange(self.action_space.shape[0]), p.TORQUE_CONTROL,
\*   forces=self._zero_gains, positionGains=self._zero_gains,
\*   velocityGains=self._zero_gains)
SettleCmd ==
  /\ pc = "settle_cmd"
  /\ IF SettleMore(i)
     THEN LET e == MotorArrayCheck(connected, bodies, robot, action_space,
                                   Zeros(zero_gains), Zeros(zero_gains))
          IN  IF e = "ok"
              THEN /\ bodies' = TorqueControl(bodies, robot, action_space,
                                              Zeros(zero_gains))
                   /\ cnt' = [cnt EXCEPT !.torque = @ + 1]
                   /\ Logged([op |-> "torque", body |-> robot, zero |-> TRUE])
                   /\ pc' = "settle_adv"
                   /\ UNCHANGED result
              ELSE /\ Raise(e)
                   /\ UNCHANGED <<bodies, cnt, calls2>>
     ELSE /\ pc' = "reset_return"
          /\ UNCHANGED <<bodies, cnt, calls2, result>>
  /\ UNCHANGED <<connected, env, op, locals, reads, resetObs, closed>>

\* self.client.stepSimulation(), and the loop variable moves on
SettleAdvance ==
  /\ pc = "settle_adv"
  /\ IF connected
     THEN /\ bodies' = Advance(bodies)
          /\ cnt' = [cnt EXCEPT !.adv = @ + 1]
          /\ Logged([op |-> "advance", body |-> NoBody, zero |-> FALSE])
          /\ i' = i + 1
          /\ pc' = "settle_cmd"
          /\ UNCHANGED result
     ELSE /\ Raise("not_connected")
          /\ UNCHANGED <<bodies, cnt, calls2, i>>
  /\ UNCHANGED <<connected, env, op, action, init_call, robot_id, joint_cnt,
                 joint, obs_values, reward, done, reads, resetObs, closed>>

\* A reset that reads the observation whatever init_call says.
ResetValueAlwaysObs(ic, bs) ==
  [NoResult EXCEPT !.op = "reset", !.kind = "return", !.init = ic,
                   !.value = GetObs(bs)]

\* What reset returns: (np.empty(shape=(0,)), []) for the initial call, the
\* vector of obs_factory.get_obs() otherwise.
ResetValue(ic, bs) ==
  IF ic THEN [NoResult EXCEPT !.op = "reset", !.kind = "return",
                              !.init = TRUE, !.pair = TRUE]
  ELSE [NoResult EXCEPT !.op = "reset", !.kind = "return",
                        !.value = GetObs(bs)]

\* if init_call: return np.empty(shape=(0,)), []
\* else: obs_values, _ = self.obs_factory.get_obs(); return obs_values
ResetReturn ==
  /\ pc = "reset_return"
  /\ result' = ResetValue(init_call, bodies)
  /\ reads' = IF init_call THEN reads ELSE Append(reads, Read("obs"))
  /\ resetObs' = IF init_call THEN resetObs
                 ELSE <<resetObs[2], [asset |-> NumJoints(bodies, robot),
                                      value |-> result'.value]>>
  /\ pc' = "idle"
  /\ UNCHANGED <<connected, bodies, env, op, locals, cnt, calls2, closed>>

\* ----------------------------------------------------------------- _close
\* The caller shuts the constructed environment down.
Close ==
  /\ pc = "idle"
  /\ Enter("close", <<>>, FALSE)
  /\ pc' = "close_disconnect"
  /\ closed' = TRUE
  /\ UNCHANGED <<connected, bodies, env>>

\* A shutdown that leaves the client connected.
CloseDisconnectNoop ==
  /\ pc = "close_disconnect"
  /\ result' = [NoResult EXCEPT !.op = "close", !.kind = "return"]
  /\ pc' = "idle"
  /\ UNCHANGED <<connected, bodies, env, op, locals, ghost, resetObs, closed>>

\* self.client.disconnect(): the session and everything in it is gone; on a
\* client that is not connected the binding raises.
CloseDisconnect ==
  /\ pc = "close_disconnect"
  /\ IF connected
     THEN /\ connected' = FALSE
          /\ bodies' = <<>>
          /\ result' = [NoResult EXCEPT !.op = "close", !.kind = "return"]
          /\ pc' = "idle"
     ELSE /\ Raise("not_connected")
          /\ UNCHANGED <<connected, bodies>>
  /\ UNCHANGED <<env, op, locals, ghost, resetObs, closed>>

Next ==
  \/ CtorConnect \/ CtorPlane \/ CtorSpaces
  \/ LoadURDF \/ LoadNumJoints \/ LoadVelocityControl \/ LoadDynamics
  \/ Step \/ StepCmd \/ StepAdvance \/ StepObs \/ StepReward \/ StepDone
  \/ Reset \/ ResetRemove \/ ResetAssign \/ SettleCmd \/ SettleAdvance
  \/ ResetReturn
  \/ Close \/ CloseDisconnect

Spec == Init /\ [][Next]_vars

\* ------------------------------------------------------------- properties
\* A reset is running or ran last: called by the agent, or by __init__.
ResetCall == op = "reset" \/ (op = "construct" /\ init_call)

Prepared(b) ==
  /\ bodies[b].velCtl = Arange(bodies[b].joints)
  /\ bodies[b].dyn = Arange(bodies[b].joints)

C2_OneRobotOnePlane ==
  (pc = "idle" /\ connected) =>
    /\ Cardinality(Robots(bodies)) = 1
    /\ Cardinality(Planes(bodies)) = 1
    /\ plane \in Planes(bodies)

\* C3: the action-space dimension never changes after construction, and a
\* reset that returns has loaded a robot whose joint count equals it.
C3_ResetSignalsJointMismatch ==
  (op = "reset" /\ pc = "idle" /\ result.kind = "return") =>
    NumJoints(bodies, robot) = action_space

\* C4: reset(init_call=True) returns the pair of an empty vector and an empty
\* label list without querying the observation factory; reset(init_call=
\* False) returns the bare vector the observation factory reports after the
\* settle pass, which has the declared shape and is not empty.
C4_ResetReturnValue ==
  (result.op = "reset" /\ result.kind = "return") =>
    IF result.init
    THEN /\ result.value = <<>> /\ result.labels = <<>> /\ result.pair
         /\ reads = <<>>
    ELSE /\ ~result.pair
         /\ Len(reads) = 1
         /\ reads[1].f = "obs" /\ reads[1].adv = SettleSteps
         /\ result.value = reads[1].saw
         /\ Len(result.value) = ObsShape
         /\ result.value # <<>>

C4_Witness ==
  /\ result.op = "reset" /\ result.kind = "return" /\ ~result.init
  /\ result.value = <<SettleSteps % PoseMod, MaxJoints>>

\* C5: in a step, every factory query comes after the torque command on the
\* loaded robot and after exactly one simulation advance, all queries see the
\* same physics state, and a step that returns has advanced exactly once.
C5_StepReadsPostStepState ==
  op = "step" =>
    /\ cnt.adv <= 1 /\ cnt.torque <= 1 /\ cnt.adv <= cnt.torque
    /\ cnt.load = 0 /\ cnt.remove = 0
    /\ \A k \in 1..Len(reads) :
         /\ reads[k].adv = 1
         /\ reads[k].saw = GetObs(bodies)
         /\ calls2[1].op = "torque" /\ calls2[1].body = robot
         /\ robot \in Robots(bodies)
         /\ calls2[2].op = "advance"
    /\ result.kind = "return" =>
         /\ cnt.adv = 1 /\ cnt.torque = 1
         /\ [k \in 1..Len(reads) |-> reads[k].f] = <<"obs", "reward", "done">>
         /\ result.value = reads[1].saw

C5_Witness ==
  /\ op = "step" /\ pc = "idle" /\ result.kind = "return"
  /\ Len(reads) = 3 /\ cnt.adv = 1
  /\ Len(action) = MaxJoints

\* C6: in every reset, the one of __init__ included, the robot is loaded
\* after the removal, every torque command of the settle pass is a zero
\* command on the robot this reset loaded, every advance directly follows
\* such a command, and the observation read and the return come after exactly
\* 1000 advances, whatever init_call is.
C6_ResetSettlesExactly1000 ==
  ResetCall =>
    /\ cnt.remove <= 1 /\ cnt.load <= cnt.remove
    /\ cnt.torque > 0 => (cnt.load = 1 /\ robot = robot_id)
    /\ cnt.adv <= cnt.torque /\ cnt.torque <= cnt.adv + 1
    /\ cnt.adv <= SettleSteps
    /\ calls2[2].op = "torque" =>
         (calls2[2].zero /\ calls2[2].body = robot_id)
    /\ calls2[2].op = "advance" =>
         calls2[1] = [op |-> "torque", body |-> robot_id, zero |-> TRUE]
    /\ (reads # <<>> \/ result.kind = "return") =>
         (cnt.adv = SettleSteps /\ cnt.torque = SettleSteps)

C6_Witness ==
  /\ op = "reset" /\ pc = "idle" /\ result.kind = "return" /\ ~result.init
  /\ cnt = [remove |-> 1, load |-> 1, torque |-> SettleSteps,
            adv |-> SettleSteps]
  /\ Len(reads) = 1

\* C7: a reset that fails because the robot asset cannot be reloaded leaves
\* the session with one loaded robot, to which self.robot refers.
C7_FailedResetLeavesRobot ==
  (op = "reset" /\ pc = "idle" /\ result.kind = "raise"
     /\ result.err = "load") =>
    /\ Cardinality(Robots(bodies)) = 1
    /\ robot \in Robots(bodies)

\* C8: once _close has disconnected the client it stays disconnected, and a
\* step or reset called afterwards has no client call accepted, queries no
\* factory and returns nothing.
C8_NoCallAfterShutdown ==
  (closed /\ pc # "close_disconnect") =>
    /\ ~connected
    /\ op \in {"step", "reset"} =>
         (cnt = NoCnt /\ reads = <<>> /\ result.kind # "return")

C8_Witness ==
  /\ closed /\ op = "step" /\ pc = "idle"
  /\ Len(action) = action_space
  /\ result.kind = "raise" /\ result.err = "not_connected"

\* C9: two successive returns of reset(init_call=False) that loaded the same
\* asset give the same observation, whatever calls came before each.
C9_ResetDeterministic ==
  (resetObs[1] # NoReset /\ resetObs[2] # NoReset
     /\ resetObs[1].asset = resetObs[2].asset) =>
    resetObs[1].value = resetObs[2].value

C9_Witness ==
  /\ resetObs[1] # NoReset /\ resetObs[2] # NoReset
  /\ resetObs[1].asset = resetObs[2].asset
  /\ op = "reset" /\ pc = "idle" /\ result.kind = "return"

\* C10: a robot that has accepted a torque command had every one of its
\* joints put under zero-force velocity control and given the dynamics
\* overrides, and the loader returns no robot it has not so prepared.
C10_LoaderPreparesBeforeTorque ==
  /\ \A b \in Robots(bodies) : bodies[b].torqued => Prepared(b)
  /\ pc = "load_return" => (robot_id \in Robots(bodies) /\ Prepared(robot_id))
  /\ (pc = "idle" /\ robot \in Robots(bodies)) => Prepared(robot)

C10_Witness ==
  /\ op = "reset" /\ pc = "settle_adv" /\ i = 0
  /\ bodies[robot].torqued /\ bodies[robot].joints = MaxJoints
  /\ bodies[robot].dyn = Arange(MaxJoints)

====
